---- MODULE Spec2Model ----
(***************************************************************************)
(* Model of src/streamlit_app.py: the conversion, filtering, aggregation,  *)
(* KPI and insight pipeline that main() re-runs on every widget            *)
(* interaction of a Streamlit session.                                     *)
(*                                                                         *)
(* Floats are modelled as exact rationals plus NaN: a number is a record   *)
(* [nan, n, d] with d > 0 and n/d in lowest terms, so that equality of     *)
(* records is equality of numbers. Rounding is not modelled.               *)
(***************************************************************************)
EXTENDS Integers, Sequences, FiniteSets, TLC

(***************************************************************************)
(* Bounds of the model.                                                    *)
(***************************************************************************)
\* largest number of rows of the loaded dataset
MaxRows == 2
\* largest number of widget interactions (script re-runs) of one session
MaxReruns == 1

(***************************************************************************)
(* Program constants.                                                      *)
(***************************************************************************)
\* range(1, 13): months of the rate table and of the reindexed month series
NumMonths == 12
\* the 80 of (share <= 80)
ParetoPct == 80

AllMonths == 1..NumMonths

(***************************************************************************)
(* Float arithmetic.                                                       *)
(***************************************************************************)
RECURSIVE GCD(_, _)
GCD(a, b) == IF b = 0 THEN a ELSE GCD(b, a % b)

Abs(x) == IF x < 0 THEN -x ELSE x

NaN == [nan |-> TRUE, n |-> 0, d |-> 1]

\* the number n/d (d > 0), in lowest terms
Frac(n, d) ==
    LET g == GCD(Abs(n), d)
    IN  [nan |-> FALSE, n |-> n \div g, d |-> d \div g]

Num(i) == Frac(i, 1)

IsNaN(x) == x.nan

FAdd(x, y) ==
    IF x.nan \/ y.nan THEN NaN ELSE Frac(x.n * y.d + y.n * x.d, x.d * y.d)

FSub(x, y) ==
    IF x.nan \/ y.nan THEN NaN ELSE Frac(x.n * y.d - y.n * x.d, x.d * y.d)

FMul(x, y) ==
    IF x.nan \/ y.nan THEN NaN ELSE Frac(x.n * y.n, x.d * y.d)

\* x / y. Every division of the modelled code is guarded against a zero
\* divisor (replace(0, nan), "if imp_total", "prev > 0", "total <= 0"), so
\* only the cases y = NaN and y # 0 arise.
FDiv(x, y) ==
    IF x.nan \/ y.nan \/ y.n = 0 THEN NaN
    ELSE IF y.n > 0 THEN Frac(x.n * y.d, x.d * y.n)
         ELSE Frac(-(x.n * y.d), x.d * (-y.n))

\* comparisons with NaN are false
FLe(x, y) == ~x.nan /\ ~y.nan /\ x.n * y.d <= y.n * x.d
FLt(x, y) == ~x.nan /\ ~y.nan /\ x.n * y.d < y.n * x.d
FGt(x, y) == FLt(y, x)
FGe(x, y) == FLe(y, x)

\* Python truthiness of a float: 0.0 is falsy, NaN is truthy
Truthy(x) == x.nan \/ x.n # 0

(***************************************************************************)
(* The data the model draws the dataset from.                              *)
(***************************************************************************)
\* Flow labels of the source ("Exportações", "Importações"), in ASCII.
Exportacoes == "Exportacoes"
Importacoes == "Importacoes"
Flows == {Exportacoes, Importacoes}
Todos == "Todos"

DataMonths == {1, 2}
\* "China" resolves through the exception table; no lookup resolves "Outros"
Partners == {"China", "Outros"}
Products == {"Petroleo bruto"}
\* value_aoa of a row
Values == {0, 1, 4}

\* iso3 of a row whose partner could not be resolved (None)
NoIso == "None"

\* Partner names of the uploads with defects: a name with a leading blank, a
\* name with a cedilla ("Moc,ambique" stands for the name written with c
\* cedilla), names only the exception table knows, names only pycountry
\* knows, and "nan", which astype(str) makes of a missing cell.
BlankChina == " China"
Mocambique == "Moc,ambique"
NanText == "nan"

\* the entries of the exception table that the partner names of the model hit
EXCECOES_ISO3 ==
    [k \in {"china", "rd congo", "mocambique"} |->
        CASE k = "china" -> "CHN"
          [] k = "rd congo" -> "COD"
          [] k = "mocambique" -> "MOZ"]

\* unidecode(text): the name without its diacritics
Unidecode(text) ==
    CASE text = Mocambique -> "Mocambique"
      [] OTHER -> text

\* unidecode(str(text).strip().lower()), on the partner names of the model
Slug(text) ==
    CASE text = "China" -> "china"
      [] text = BlankChina -> "china"
      [] text = "Outros" -> "outros"
      [] text = "RD Congo" -> "rd congo"
      [] text = Mocambique -> "mocambique"
      [] text = "Canada" -> "canada"
      [] text = "Cyprus" -> "cyprus"
      [] OTHER -> text

\* pycountry's exact and fuzzy lookup: "" when both raise (pycountry has the
\* English names only)
PycountryToIso3(name) ==
    CASE name = "China" -> "CHN"
      [] name = "Canada" -> "CAN"
      [] name = "Cyprus" -> "CYP"
      [] OTHER -> ""

ResolveIso3GenericOnly(raw) ==
    LET iso == PycountryToIso3(Unidecode(raw))
    IN  IF iso # "" THEN iso ELSE NoIso

\* iso3 of one raw partner name, as the loop of normalizar_paises computes it
ResolveIso3(raw) ==
    LET key == Slug(raw)
    IN  IF key \in DOMAIN EXCECOES_ISO3 THEN EXCECOES_ISO3[key]
        ELSE LET iso == PycountryToIso3(Unidecode(raw))
             IN  IF iso # "" THEN iso ELSE NoIso

\* the names the loop of normalizar_paises hands to _pycountry_to_iso3, in
\* order: those whose key is not in the exception table ("continue" skips
\* the lookup for the others)
PycountryCalls(df) ==
    LET names == [i \in 1..Len(df) |-> df[i].partner_country]
        missed == SelectSeq(names, LAMBDA raw : Slug(raw) \notin DOMAIN EXCECOES_ISO3)
    IN  [i \in 1..Len(missed) |-> Unidecode(missed[i])]

\* a row as carregar_dados returns it
RawRows ==
    [month : DataMonths, flow : Flows, partner_country : Partners,
     product_desc : Products, value_aoa : Values]

\* normalizar_paises: adds partner_country_clean and iso3
NormalizarPaises(df) ==
    [i \in 1..Len(df) |->
        [month |-> df[i].month, flow |-> df[i].flow,
         partner_country_clean |-> df[i].partner_country,
         iso3 |-> ResolveIso3(df[i].partner_country),
         product_desc |-> df[i].product_desc,
         value_aoa |-> df[i].value_aoa]]

\* One order of the rows stands for every CSV with the same rows: no grouped
\* sum, count or filter of the pipeline depends on the order of the rows.
FlowRank(f) == IF f = Exportacoes THEN 0 ELSE 1
PartnerRank(p) == IF p = "China" THEN 0 ELSE 1
RowRank(r) ==
    ((r.month * 2 + FlowRank(r.flow)) * 2 + PartnerRank(r.partner_country)) * 8
    + r.value_aoa

Datasets ==
    UNION {{df \in [1..n -> RawRows] :
                \A i \in 1..(n - 1) : RowRank(df[i]) <= RowRank(df[i + 1])}
           : n \in 0..MaxRows}

(***************************************************************************)
(* The uploaded CSV and carregar_dados.                                    *)
(***************************************************************************)
\* colunas_essenciais
ColunasEssenciais ==
    {"year", "month", "flow", "partner_country", "product_desc", "value_aoa"}

\* the 2022 of (df["year"] == 2022)
ReportYear == 2022

\* a nullable integer (Int64): a value or <NA>
NA == [na |-> TRUE, v |-> 0]
Int64(v) == [na |-> FALSE, v |-> v]

\* the cells of the model that are numerals, with the number they denote
NumberOf ==
    [t \in {"0", "1", "2", "4", "13", "-1", "2021", "2022"} |->
        CASE t = "0" -> 0
          [] t = "1" -> 1
          [] t = "2" -> 2
          [] t = "4" -> 4
          [] t = "13" -> 13
          [] t = "-1" -> -1
          [] t = "2021" -> 2021
          [] t = "2022" -> 2022]

\* the numeral of a number, as it stands in a CSV
TextOf(n) == CHOOSE t \in DOMAIN NumberOf : NumberOf[t] = n

\* pd.to_numeric(errors="coerce"): <NA> for an empty or unparseable cell
ToNumeric(text) ==
    IF text \in DOMAIN NumberOf THEN Int64(NumberOf[text]) ELSE NA

\* to_numeric(...).fillna(0.0) of the value_aoa column
ValueAoa(text) ==
    LET x == ToNumeric(text)
    IN  IF x.na THEN 0 ELSE x.v

\* astype(str) of a text column: a missing cell (the empty cell of the CSV)
\* becomes the string "nan"
AsTypeStr(text) == IF text = "" THEN NanText ELSE text

\* fillna("Desconhecido").astype(str)
ProductDesc(text) == IF text = "" THEN "Desconhecido" ELSE text

\* the rows of an upload with defects: every combination of a year, a month
\* and a value that is good, out of range or unparseable, and one row for
\* every partner name
YearTexts == {"2022", "2021", ""}
MonthTexts == {"1", "13", "x"}
ValueTexts == {"4", "-1", "x"}
PartnerTexts ==
    {"China", BlankChina, "", "RD Congo", Mocambique, "Canada", "Cyprus",
     "Outros"}

CsvRows ==
    [year : YearTexts, month : MonthTexts, flow : {Exportacoes},
     partner_country : {"China"}, product_desc : Products,
     value_aoa : ValueTexts]
    \cup
    [year : {"2022"}, month : {"1"}, flow : {Exportacoes},
     partner_country : PartnerTexts, product_desc : Products,
     value_aoa : {"4"}]

CleanCsvRow ==
    [year |-> "2022", month |-> "1", flow |-> Exportacoes,
     partner_country |-> "China", product_desc |-> "Petroleo bruto",
     value_aoa |-> "4"]

\* the sets of columns of the uploads that lack some essential column
ColumnSets ==
    {ColunasEssenciais \ {"value_aoa"}, ColunasEssenciais \ {"year", "month"},
     {"flow"}}

\* an upload: the columns of its header and its rows (the cells of a column
\* that is not in the header are not read)
Uploads ==
    {[columns |-> ColunasEssenciais, rows |-> rows] :
        rows \in UNION {[1..n -> CsvRows] : n \in 0..MaxRows}}
    \cup
    {[columns |-> cols, rows |-> <<CleanCsvRow>>] : cols \in ColumnSets}

\* the CSV that holds the rows of a dataset, all of them of 2022
CsvOf(raw) ==
    [columns |-> ColunasEssenciais,
     rows |-> [i \in 1..Len(raw) |->
                [year |-> TextOf(ReportYear), month |-> TextOf(raw[i].month),
                 flow |-> raw[i].flow,
                 partner_country |-> raw[i].partner_country,
                 product_desc |-> raw[i].product_desc,
                 value_aoa |-> TextOf(raw[i].value_aoa)]]]

\* the columns after the coercions of carregar_dados
Coerce(rows) ==
    [i \in 1..Len(rows) |->
        [year |-> ToNumeric(rows[i].year),
         month |-> ToNumeric(rows[i].month),
         flow |-> AsTypeStr(rows[i].flow),
         partner_country |-> AsTypeStr(rows[i].partner_country),
         product_desc |-> ProductDesc(rows[i].product_desc),
         value_aoa |-> ValueAoa(rows[i].value_aoa)]]

\* (df["year"] == 2022) and (df["year"] != 2022) of one row: <NA> compares
\* to <NA>, which any() skips and a boolean mask takes as False
IsReportYear(r) == ~r.year.na /\ r.year.v = ReportYear
IsOtherYear(r) == ~r.year.na /\ r.year.v # ReportYear

\* (df["month"] >= 1) & (df["month"] <= 12) of one row
MonthInRange(r) == ~r.month.na /\ r.month.v >= 1 /\ r.month.v <= NumMonths

\* what carregar_dados leaves of the rows that pass its checks: the month
\* of a kept row is never <NA>
KeepRows(df) ==
    LET df22 == IF \E i \in 1..Len(df) : IsOtherYear(df[i])
                THEN SelectSeq(df, IsReportYear) ELSE df
        kept == SelectSeq(df22, MonthInRange)
    IN  [i \in 1..Len(kept) |->
            [year |-> kept[i].year, month |-> kept[i].month.v,
             flow |-> kept[i].flow,
             partner_country |-> kept[i].partner_country,
             product_desc |-> kept[i].product_desc,
             value_aoa |-> kept[i].value_aoa]]

NoError == [kind |-> "", colunas |-> {}]

Stopped(kind, cols) ==
    [stopped |-> TRUE, error |-> [kind |-> kind, colunas |-> cols],
     warning |-> FALSE, df |-> << >>]

CarregarDadosNoYearCheck(up) ==
    LET faltantes == ColunasEssenciais \ up.columns
        df == Coerce(up.rows)
    IN  IF faltantes # {} THEN Stopped("faltam_colunas", faltantes)
        ELSE [stopped |-> FALSE, error |-> NoError,
              warning |-> \E i \in 1..Len(df) : IsOtherYear(df[i]),
              df |-> KeepRows(df)]

\* carregar_dados on an uploaded file: st.error and st.stop() when a column
\* is missing or no row is of 2022, else the rows kept, with the warning
CarregarDados(up) ==
    LET faltantes == ColunasEssenciais \ up.columns
        df == Coerce(up.rows)
    IN  IF faltantes # {} THEN Stopped("faltam_colunas", faltantes)
        ELSE IF ~\E i \in 1..Len(df) : IsReportYear(df[i])
             THEN Stopped("sem_2022", {})
             ELSE [stopped |-> FALSE, error |-> NoError,
                   warning |-> \E i \in 1..Len(df) : IsOtherYear(df[i]),
                   df |-> KeepRows(df)]

\* Rate CSVs a session may start with (ler_taxas_csv): none, the table
\* {1: 0, 2: 500}, a partial table and a complete table.
CsvNone == << >>
CsvScenario == (1 :> 0) @@ (2 :> 500)
CsvPartial == (2 :> 1) @@ (3 :> 2)
CsvFull == [m \in AllMonths |-> 2]
RateCsvs == {CsvNone, CsvScenario, CsvPartial, CsvFull}

\* months whose rate widget the model edits, and the values typed
RateEditMonths == {1, 3}
RateInputs == {0, 1}

(***************************************************************************)
(* pandas helpers.                                                         *)
(***************************************************************************)
\* Series.sum(): NaN entries are skipped, the empty sum is 0
RECURSIVE SumSkipNa(_)
SumSkipNa(vals) ==
    IF vals = << >> THEN Num(0)
    ELSE IF IsNaN(Head(vals)) THEN SumSkipNa(Tail(vals))
         ELSE FAdd(Head(vals), SumSkipNa(Tail(vals)))

ValuesOf(df) == [i \in 1..Len(df) |-> df[i].value]

SumValue(df) == SumSkipNa(ValuesOf(df))

\* Series.max(): NaN entries are skipped, NaN when nothing is left
RECURSIVE MaxSkipNa(_)
MaxSkipNa(vals) ==
    IF vals = << >> THEN NaN
    ELSE LET rest == MaxSkipNa(Tail(vals))
             h == Head(vals)
         IN  IF IsNaN(h) THEN rest
             ELSE IF IsNaN(rest) \/ FGe(h, rest) THEN h ELSE rest

MaxOfSet(S) == CHOOSE x \in S : \A y \in S : y <= x
MinOfSet(S) == CHOOSE x \in S : \A y \in S : x <= y

\* Series.min(): NaN entries are skipped, NaN when nothing is left
RECURSIVE MinSkipNa(_)
MinSkipNa(vals) ==
    IF vals = << >> THEN NaN
    ELSE LET rest == MinSkipNa(Tail(vals))
             h == Head(vals)
         IN  IF IsNaN(h) THEN rest
             ELSE IF IsNaN(rest) \/ FLe(h, rest) THEN h ELSE rest

\* a null cell: only iso3 can be null in the records of the pipeline
IsNull(r, col) == col = "iso3" /\ r[col] = NoIso

\* df.groupby(cols)["value"].sum(): one group per key tuple present among the
\* rows whose key columns are all non-null (groupby drops rows with a null
\* key), with the sum of the group's values
GroupBySum(df, cols) ==
    LET KeyOf(r) == [j \in 1..Len(cols) |-> r[cols[j]]]
        rows == SelectSeq(df, LAMBDA r : \A j \in 1..Len(cols) : ~IsNull(r, cols[j]))
        keys == {KeyOf(rows[i]) : i \in 1..Len(rows)}
    IN  [k \in keys |-> SumValue(SelectSeq(rows, LAMBDA r : KeyOf(r) = k))]

(***************************************************************************)
(* obter_taxas and the conversion block of main.                           *)
(***************************************************************************)
\* taxas after the widget loop: the CSV's entries, overridden by every
\* widget value > 0
MergeTaxas(lidas, inputs) ==
    [m \in (DOMAIN lidas) \cup {k \in AllMonths : inputs[k] > 0} |->
        IF inputs[m] > 0 THEN inputs[m] ELSE lidas[m]]

RECURSIVE SumRates(_, _)
SumRates(tx, months) ==
    IF months = {} THEN 0
    ELSE LET m == CHOOSE k \in months : TRUE
         IN  tx[m] + SumRates(tx, months \ {m})

\* taxa_media: the mean of the entries > 0, 0.0 when there is none
TaxaMedia(tx) ==
    LET valid == {m \in DOMAIN tx : tx[m] > 0}
    IN  IF valid # {} THEN Frac(SumRates(tx, valid), Cardinality(valid))
        ELSE Num(0)

CompletoAny(tx) == \E m \in AllMonths : m \in DOMAIN tx /\ tx[m] > 0

\* completo
Completo(tx) == \A m \in AllMonths : m \in DOMAIN tx /\ tx[m] > 0

ObterTaxas(lidas, inputs) ==
    LET tx == MergeTaxas(lidas, inputs)
    IN  [taxas |-> tx, taxa_media |-> TaxaMedia(tx), completo |-> Completo(tx)]

RateForMonthNoFallback(tx, media, m) ==
    IF m \in DOMAIN tx THEN Num(tx[m]) ELSE media

\* _rate_for_month
RateForMonth(tx, media, m) ==
    LET r == IF m \in DOMAIN tx THEN tx[m] ELSE 0
    IN  IF r # 0 /\ r > 0 THEN Num(r) ELSE media

ConvertRowAlwaysDivides(r, moeda, tx, media) ==
    LET rate == RateForMonth(tx, media, r.month)
    IN  [month |-> r.month, flow |-> r.flow,
         partner_country_clean |-> r.partner_country_clean, iso3 |-> r.iso3,
         product_desc |-> r.product_desc, value_aoa |-> r.value_aoa,
         applied_rate |-> rate,
         value |-> FDiv(Num(r.value_aoa), IF rate = Num(0) THEN NaN ELSE rate)]

\* df_val of one row: in AOA the value is value_aoa and there is no
\* applied_rate column (NaN here); in USD value_aoa / applied_rate with a
\* zero rate replaced by NaN
ConvertRow(r, moeda, tx, media) ==
    LET rate == IF moeda = "AOA" THEN NaN ELSE RateForMonth(tx, media, r.month)
        value == IF moeda = "AOA" THEN Num(r.value_aoa)
                 ELSE FDiv(Num(r.value_aoa), IF rate = Num(0) THEN NaN ELSE rate)
    IN  [month |-> r.month, flow |-> r.flow,
         partner_country_clean |-> r.partner_country_clean, iso3 |-> r.iso3,
         product_desc |-> r.product_desc, value_aoa |-> r.value_aoa,
         applied_rate |-> rate, value |-> value]

Convert(df, moeda, tx, media) ==
    [i \in 1..Len(df) |-> ConvertRow(df[i], moeda, tx, media)]

\* the badge "Taxa média aplicada em meses faltantes" of the caption
Badge(moeda, completo) == moeda # "AOA" /\ ~completo

(***************************************************************************)
(* The filters of main.                                                    *)
(***************************************************************************)
MesesOf(df) == {df[i].month : i \in 1..Len(df)}
ParceirosOf(df) == {df[i].partner_country_clean : i \in 1..Len(df)}
ProdutosOf(df) == {df[i].product_desc : i \in 1..Len(df)}

\* vmax = float(df_val["value"].max())
VMax(df) == MaxSkipNa(ValuesOf(df))

\* the slider's default value (0.0, vmax); the slider swaps the two ends of
\* a range given in reverse, which is the case of a negative vmax
FaixaDefault(vm) ==
    IF FLt(vm, Num(0)) THEN [lo |-> vm, hi |-> Num(0)]
    ELSE [lo |-> Num(0), hi |-> vm]

\* the slider's max_value: max(1.0, vmax), which is 1.0 when vmax is NaN
SliderMax(vm) == IF FGt(vm, Num(1)) THEN vm ELSE Num(1)

ApplyFilters(df, meses, parceiros, produtos, fluxo, fx) ==
    LET Keep(r) ==
            /\ r.month \in meses
            /\ (parceiros # {} => r.partner_country_clean \in parceiros)
            /\ (produtos # {} => r.product_desc \in produtos)
            /\ (fluxo \in Flows => r.flow = fluxo)
            /\ FGe(r.value, fx.lo)
            /\ FLe(r.value, fx.hi)
    IN  SelectSeq(df, Keep)

(***************************************************************************)
(* precompute_aggs.                                                        *)
(***************************************************************************)
SADC == {"AGO","ZAF","BWA","COD","COG","LBR","LSO","MDG","MWI","MUS","MOZ",
         "NAM","SYC","SWZ","TZA","ZMB","ZWE","COM","STP"}
UE27 == {"AUT","BEL","BGR","HRV","CYP","CZE","DNK","EST","FIN","FRA","DEU",
         "GRC","HUN","IRL","ITA","LVA","LTU","LUX","MLT","NLD","POL","PRT",
         "ROU","SVK","SVN","ESP","SWE"}
ASIA == {"AFG","ARM","AZE","BHR","BGD","BRN","BTN","KHM","CHN","CYP","GEO",
         "HKG","IND","IDN","IRN","IRQ","ISR","JPN","JOR","KAZ","KWT","KGZ",
         "LAO","LBN","MAC","MYS","MDV","MNG","MMR","NPL","PRK","OMN","PAK",
         "PSE","PHL","QAT","SAU","SGP","KOR","LKA","SYR","TWN","TJK","THA",
         "TUR","TKM","ARE","UZB","VNM","YEM"}

RegiaoAsiaFirst(x) ==
    IF x \in SADC THEN "SADC"
    ELSE IF x \in ASIA THEN "Asia"
    ELSE IF x \in UE27 THEN "UE"
    ELSE "Outros"

\* the lambda of tmp["regiao"]
Regiao(x) ==
    IF x \in SADC THEN "SADC"
    ELSE IF x \in UE27 THEN "UE"
    ELSE IF x \in ASIA THEN "Asia"
    ELSE "Outros"

\* tmp: df with the column regiao
WithRegiao(df) ==
    [i \in 1..Len(df) |->
        [month |-> df[i].month, flow |-> df[i].flow,
         iso3 |-> df[i].iso3, regiao |-> Regiao(df[i].iso3),
         value |-> df[i].value]]

MonthlyFlow(df) == GroupBySum(df, <<"month", "flow">>)

ByPartner(df) == GroupBySum(df, <<"partner_country_clean", "iso3", "flow">>)

ByProduct(df) == GroupBySum(df, <<"product_desc", "flow">>)

ByRegion(df) == GroupBySum(WithRegiao(df), <<"regiao", "flow">>)

MonthlyRegion(df) == GroupBySum(WithRegiao(df), <<"month", "regiao">>)

PrecomputeAggs(df) ==
    [monthly_flow |-> MonthlyFlow(df), by_partner |-> ByPartner(df),
     by_product |-> ByProduct(df), by_region |-> ByRegion(df),
     monthly_region |-> MonthlyRegion(df)]

\* the sum of the value column of a grouped view
RECURSIVE SumView(_, _)
SumView(view, keys) ==
    IF keys = {} THEN Num(0)
    ELSE LET k == CHOOSE x \in keys : TRUE
         IN  FAdd(view[k], SumView(view, keys \ {k}))

ViewTotal(view) == SumView(view, DOMAIN view)

(***************************************************************************)
(* gerar_kpis.                                                             *)
(***************************************************************************)
FlowTotal(df, f) == SumValue(SelectSeq(df, LAMBDA r : r.flow = f))

MonthTotal(df, m) == SumValue(SelectSeq(df, LAMBDA r : r.month = m))

CoberturaZero(exp_total, imp_total) ==
    IF Truthy(imp_total) THEN FDiv(exp_total, imp_total) ELSE Num(0)

\* cobertura
Cobertura(exp_total, imp_total) ==
    IF Truthy(imp_total) THEN FDiv(exp_total, imp_total) ELSE NaN

\* mes_ref
MesRef(df, meses) ==
    IF meses # {} THEN MaxOfSet(meses)
    ELSE IF df # << >> THEN MaxOfSet(MesesOf(df)) ELSE 1

VarMMRatio(df, mes_ref) ==
    LET cur == IF df # << >> THEN MonthTotal(df, mes_ref) ELSE NaN
        prev == IF mes_ref > 1 THEN MonthTotal(df, mes_ref - 1) ELSE NaN
    IN  IF Truthy(prev) /\ FGt(prev, Num(0))
        THEN FMul(FDiv(cur, prev), Num(100))
        ELSE NaN

\* var_mm
VarMM(df, mes_ref) ==
    LET cur == IF df # << >> THEN MonthTotal(df, mes_ref) ELSE NaN
        prev == IF mes_ref > 1 THEN MonthTotal(df, mes_ref - 1) ELSE NaN
    IN  IF Truthy(prev) /\ FGt(prev, Num(0))
        THEN FMul(FSub(FDiv(cur, prev), Num(1)), Num(100))
        ELSE NaN

NParceirosRows(df) == Len(df)

\* n_parceiros
NParceiros(df) == Cardinality(ParceirosOf(df))

GerarKpis(df, meses) ==
    LET exp_total == FlowTotal(df, Exportacoes)
        imp_total == FlowTotal(df, Importacoes)
        mes_ref == MesRef(df, meses)
    IN  [exp_total |-> exp_total,
         imp_total |-> imp_total,
         balanca |-> FSub(exp_total, imp_total),
         cobertura |-> Cobertura(exp_total, imp_total),
         n_parceiros |-> NParceiros(df),
         mes_ref |-> mes_ref,
         var_mm |-> VarMM(df, mes_ref)]

\* the texts of the coverage and month-over-month cards: the dash for NaN
CobText(k) == IF IsNaN(k.cobertura) THEN "dash" ELSE "pct"
VarText(k) == IF IsNaN(k.var_mm) THEN "dash" ELSE "pct"

(***************************************************************************)
(* gerar_insights.                                                         *)
(***************************************************************************)
Sentinel == [kind |-> "sem_valores"]

\* df.groupby(col)["value"].sum() for a single column without nulls
PartnerTotals(df) == GroupBySum(df, <<"partner_country_clean">>)
ProductTotals(df) == GroupBySum(df, <<"product_desc">>)

\* the keys that sort_values(ascending=False).head(1) may return: a key of
\* largest total (the default sort is not stable, so any of the ties)
TopKeys(totals) ==
    {k \in DOMAIN totals : \A j \in DOMAIN totals : FGe(totals[k], totals[j])}

\* the totals sorted descending, as a sequence of values
RECURSIVE SortDesc(_, _)
SortDesc(totals, keys) ==
    IF keys = {} THEN << >>
    ELSE LET k == CHOOSE x \in keys : \A j \in keys : FGe(totals[x], totals[j])
         IN  <<totals[k]>> \o SortDesc(totals, keys \ {k})

\* cumsum
RECURSIVE CumSum(_, _)
CumSum(vals, acc) ==
    IF vals = << >> THEN << >>
    ELSE LET a == FAdd(acc, Head(vals))
         IN  <<a>> \o CumSum(Tail(vals), a)

\* share: cumulative share of the partners in descending order, in percent
Share(df, total) ==
    LET t == PartnerTotals(df)
        cum == CumSum(SortDesc(t, DOMAIN t), Num(0))
    IN  [i \in 1..Len(cum) |-> FMul(FDiv(cum[i], total), Num(100))]

\* n80 = (share <= 80).sum()
N80(share) == Cardinality({i \in 1..Len(share) : FLe(share[i], Num(ParetoPct))})

\* by_m: the month totals reindexed to 1..12, months without rows as 0
ByM(df) == [m \in AllMonths |-> IF m \in MesesOf(df) THEN MonthTotal(df, m) ELSE Num(0)]

\* idxmax / idxmin: the first month of largest / smallest total
IdxMax(by_m) ==
    LET mx == MaxSkipNa(by_m)
    IN  MinOfSet({m \in AllMonths : by_m[m] = mx})
IdxMin(by_m) ==
    LET mn == MinSkipNa(by_m)
    IN  MinOfSet({m \in AllMonths : by_m[m] = mn})

MonthInsight(df) ==
    LET by_m == ByM(df)
    IN  IF FGt(MaxSkipNa(by_m), Num(0))
        THEN <<[kind |-> "meses", best_m |-> IdxMax(by_m), worst_m |-> IdxMin(by_m)]>>
        ELSE << >>

BalanceInsight(df) ==
    LET bal == FSub(FlowTotal(df, Exportacoes), FlowTotal(df, Importacoes))
    IN  IF FGe(bal, Num(0)) THEN <<[kind |-> "superavitaria"]>>
        ELSE <<[kind |-> "deficitaria"]>>

ConcentrationInsight(df, total) ==
    LET n80 == N80(Share(df, total))
    IN  IF n80 >= 1 THEN <<[kind |-> "concentracao", n80 |-> n80]>> ELSE << >>

ShortCircuitNegativeOnly(df) == df = << >> \/ FLt(SumValue(df), Num(0))

\* the two early returns
ShortCircuit(df) == df = << >> \/ FLe(SumValue(df), Num(0))

StatementsBalanceFirst(df) ==
    LET total == SumValue(df)
        pt == PartnerTotals(df)
        pr == ProductTotals(df)
    IN  {   <<[kind |-> "parceiro", nome |-> p[1],
               pct |-> FDiv(FMul(Num(100), pt[p]), total)]>>
         \o <<[kind |-> "produto", nome |-> q[1],
               pct |-> FDiv(FMul(Num(100), pr[q]), total)]>>
         \o BalanceInsight(df)
         \o MonthInsight(df)
         \o ConcentrationInsight(df, total)
         : p \in TopKeys(pt), q \in TopKeys(pr)}

\* the statements appended after the early returns, in order (the groupbys
\* of a non-empty df are never empty, so the first two are always appended)
Statements(df) ==
    LET total == SumValue(df)
        pt == PartnerTotals(df)
        pr == ProductTotals(df)
    IN  {   <<[kind |-> "parceiro", nome |-> p[1],
               pct |-> FDiv(FMul(Num(100), pt[p]), total)]>>
         \o <<[kind |-> "produto", nome |-> q[1],
               pct |-> FDiv(FMul(Num(100), pr[q]), total)]>>
         \o MonthInsight(df)
         \o BalanceInsight(df)
         \o ConcentrationInsight(df, total)
         : p \in TopKeys(pt), q \in TopKeys(pr)}

GerarInsightsNoSentinel(df) ==
    IF ShortCircuit(df) THEN {<< >>} ELSE Statements(df)

\* every list gerar_insights may return for df
GerarInsights(df) ==
    IF ShortCircuit(df) THEN {<<Sentinel>>} ELSE Statements(df)

(***************************************************************************)
(* plot_pareto_parceiros.                                                  *)
(***************************************************************************)
\* fluxo_ref of the partner tab
FluxoRef(fluxo) == IF fluxo \in Flows THEN fluxo ELSE Exportacoes

\* the partner names of the model in the order sorted() and groupby put them
NameOrder ==
    <<BlankChina, "Canada", "China", "Cyprus", Mocambique, "Outros",
      "RD Congo", NanText>>

NameIndex(name) == CHOOSE i \in 1..Len(NameOrder) : NameOrder[i] = name

\* by_partner[flow == fluxo].groupby("partner_country_clean")["value"].sum()
ParetoTotals(by_partner, fluxo) ==
    LET keys == {k \in DOMAIN by_partner : k[3] = fluxo}
        names == {k[1] : k \in keys}
    IN  [n \in names |-> SumView(by_partner, {k \in keys : k[1] = n})]

\* the index label of a group: its place, from 0, among the groups in the
\* order of their names
IndexLabel(name, names) ==
    Cardinality({m \in names : NameIndex(m) < NameIndex(name)})

\* the orders sort_values("value", ascending=False) may leave the groups in
DescOrders(totals) ==
    LET n == Cardinality(DOMAIN totals)
    IN  {o \in [1..n -> DOMAIN totals] :
            /\ \A i, j \in 1..n : i # j => o[i] # o[j]
            /\ \A i \in 1..(n - 1) : FGe(totals[o[i]], totals[o[i + 1]])}

CumPctShare(totals, o) ==
    LET vals == [i \in 1..Len(o) |-> totals[o[i]]]
        total == SumSkipNa(vals)
    IN  [i \in 1..Len(o) |-> FDiv(FMul(Num(100), vals[i]), total)]

\* cum_pct = 100 * cumsum / sum, over the groups in the order o
CumPct(totals, o) ==
    LET vals == [i \in 1..Len(o) |-> totals[o[i]]]
        cum == CumSum(vals, Num(0))
        total == SumSkipNa(vals)
    IN  [i \in 1..Len(o) |-> FDiv(FMul(Num(100), cum[i]), total)]

\* (cum_pct - 80).abs()
Dist80(cum_pct) ==
    [i \in 1..Len(cum_pct) |->
        LET d == FSub(cum_pct[i], Num(ParetoPct))
        IN  IF FLt(d, Num(0)) THEN FSub(Num(0), d) ELSE d]

\* close80 = (cum_pct - 80).abs().idxmin(): the index label of the first
\* row of smallest distance
Close80(dist, o) ==
    LET mn == MinSkipNa(dist)
        row == MinOfSet({i \in 1..Len(o) : dist[i] = mn})
    IN  IndexLabel(o[row], {o[i] : i \in 1..Len(o)})

\* the figure for the groups in the order o: empty for no group; idxmin has
\* no row to return and the annotation raises when every distance is NaN;
\* else the bars, the cumulative line and the annotation at .iloc[close80]
\* (mark: a position from 1)
ParetoFigure(totals, o) ==
    IF o = << >>
    THEN [status |-> "empty", partners |-> << >>, cum_pct |-> << >>, mark |-> 0]
    ELSE LET cum_pct == CumPct(totals, o)
             dist == Dist80(cum_pct)
         IN  IF \A i \in 1..Len(o) : IsNaN(dist[i])
             THEN [status |-> "error", partners |-> o, cum_pct |-> cum_pct,
                   mark |-> 0]
             ELSE [status |-> "ok", partners |-> o, cum_pct |-> cum_pct,
                   mark |-> Close80(dist, o) + 1]

\* every figure plot_pareto_parceiros may return
PlotParetoParceiros(by_partner, fluxo) ==
    LET totals == ParetoTotals(by_partner, fluxo)
    IN  {ParetoFigure(totals, o) : o \in DescOrders(totals)}

(***************************************************************************)
(* The session: main() runs once when the session starts and once more     *)
(* after every widget interaction.                                         *)
(***************************************************************************)
VARIABLES
    upload,         \* the uploaded CSV (demo mode off)
    stage,          \* "uploaded": main() has not run; "stopped": st.stop()
                    \* ended its run; "done": it ran to its end
    load,           \* what carregar_dados did: stop or rows, error, warning
    df_norm,        \* the loaded dataset, after normalizar_paises
    lookups,        \* the names normalizar_paises called _pycountry_to_iso3 with
    taxas_lidas,    \* the rate CSV, as ler_taxas_csv returns it
    rate_input,     \* the twelve rate number_inputs
    moeda,          \* the currency radio
    meses_sel,      \* session_state["meses_sel"]
    parceiros_sel,  \* session_state["parceiros_sel"]
    produtos_sel,   \* session_state["produtos_sel"]
    fluxo_sel,      \* session_state["fluxo_sel"]
    faixa,          \* the value-range slider
    reruns,         \* number of re-runs of the script so far
    rates,          \* what obter_taxas returned: taxas, taxa_media, completo
    df_val,         \* the converted records
    df_f,           \* the filtered records
    aggs,           \* what precompute_aggs returned
    kpis,           \* what gerar_kpis computed
    insights,       \* what gerar_insights returned
    pareto          \* the figure plot_pareto_parceiros returned

inputs == <<df_norm, taxas_lidas, rate_input, moeda, meses_sel, parceiros_sel,
            produtos_sel, fluxo_sel, faixa, reruns>>
outputs == <<rates, df_val, df_f, aggs, kpis, insights, pareto>>
vars == <<upload, stage, load, lookups, inputs, outputs>>

\* the defaults of the rate widgets: float(taxas.get(m, 0.0))
RateDefaults(lidas) ==
    [m \in AllMonths |-> IF m \in DOMAIN lidas THEN lidas[m] ELSE 0]

\* df_val of a run
DfVal(df, md, rt) == Convert(df, md, rt.taxas, rt.taxa_media)

\* The slider has no key: it keeps the range the user left it at as long as
\* its arguments (which include vmax) are the same as in the previous run,
\* and starts again from its default (0.0, vmax) when they change.
SliderValue(old_val, new_val, user_faixa) ==
    IF VMax(new_val) = VMax(old_val) THEN user_faixa
    ELSE FaixaDefault(VMax(new_val))

\* main(), from "Taxas" to the insights, for the widget values of this run;
\* user_faixa is the range the slider widget holds
Main(user_faixa) ==
    /\ rates' = ObterTaxas(taxas_lidas', rate_input')
    /\ df_val' = DfVal(df_norm', moeda', rates')
    /\ faixa' = SliderValue(df_val, df_val', user_faixa)
    /\ df_f' = ApplyFilters(df_val', meses_sel', parceiros_sel', produtos_sel',
                            fluxo_sel', faixa')
    /\ aggs' = PrecomputeAggs(df_f')
    /\ kpis' = GerarKpis(df_f', meses_sel')
    /\ insights' \in GerarInsights(df_f')
    /\ pareto' \in PlotParetoParceiros(aggs'.by_partner, FluxoRef(fluxo_sel'))

\* the state the first run of main() leaves for the upload up and the rate
\* CSV lidas, when carregar_dados does not stop it: AOA, every month
\* selected, no other filter
Loaded(up, lidas) ==
    /\ upload = up
    /\ load = CarregarDados(up)
    /\ ~load.stopped
    /\ stage = "done"
    /\ df_norm = NormalizarPaises(load.df)
    /\ lookups = PycountryCalls(load.df)
    /\ taxas_lidas = lidas
    /\ rate_input = RateDefaults(taxas_lidas)
    /\ moeda = "AOA"
    /\ meses_sel = MesesOf(df_norm)
    /\ parceiros_sel = {}
    /\ produtos_sel = {}
    /\ fluxo_sel = Todos
    /\ reruns = 0
    /\ rates = ObterTaxas(taxas_lidas, rate_input)
    /\ df_val = DfVal(df_norm, moeda, rates)
    /\ faixa = FaixaDefault(VMax(df_val))
    /\ df_f = ApplyFilters(df_val, meses_sel, parceiros_sel, produtos_sel,
                           fluxo_sel, faixa)
    /\ aggs = PrecomputeAggs(df_f)
    /\ kpis = GerarKpis(df_f, meses_sel)
    /\ insights \in GerarInsights(df_f)
    /\ pareto \in PlotParetoParceiros(aggs.by_partner, FluxoRef(fluxo_sel))

\* a session on a well-formed CSV, after its first run
Init == \E raw \in Datasets, lidas \in RateCsvs : Loaded(CsvOf(raw), lidas)

Rerun ==
    /\ stage = "done"
    /\ reruns < MaxReruns
    /\ reruns' = reruns + 1
    /\ UNCHANGED <<upload, stage, load, df_norm, lookups, taxas_lidas>>

\* the currency radio
SetMoeda ==
    /\ Rerun
    /\ moeda' = IF moeda = "AOA" THEN "USD" ELSE "AOA"
    /\ UNCHANGED <<rate_input, meses_sel, parceiros_sel, produtos_sel, fluxo_sel>>
    /\ Main(faixa)

\* one of the rate number_inputs
SetRate ==
    /\ Rerun
    /\ \E m \in RateEditMonths, v \in RateInputs :
          /\ v # rate_input[m]
          /\ rate_input' = [rate_input EXCEPT ![m] = v]
    /\ UNCHANGED <<moeda, meses_sel, parceiros_sel, produtos_sel, fluxo_sel>>
    /\ Main(faixa)

\* the month multiselect: its options are the months of df_val
SelectMeses ==
    /\ Rerun
    /\ \E S \in SUBSET MesesOf(df_val) :
          /\ S # meses_sel
          /\ meses_sel' = S
    /\ UNCHANGED <<rate_input, moeda, parceiros_sel, produtos_sel, fluxo_sel>>
    /\ Main(faixa)

\* the partner multiselect
SelectParceiros ==
    /\ Rerun
    /\ \E S \in SUBSET ParceirosOf(df_val) :
          /\ S # parceiros_sel
          /\ parceiros_sel' = S
    /\ UNCHANGED <<rate_input, moeda, meses_sel, produtos_sel, fluxo_sel>>
    /\ Main(faixa)

\* the product multiselect
SelectProdutos ==
    /\ Rerun
    /\ \E S \in SUBSET ProdutosOf(df_val) :
          /\ S # produtos_sel
          /\ produtos_sel' = S
    /\ UNCHANGED <<rate_input, moeda, meses_sel, parceiros_sel, fluxo_sel>>
    /\ Main(faixa)

\* the flow selectbox
SelectFluxo ==
    /\ Rerun
    /\ \E f \in {Todos} \cup Flows :
          /\ f # fluxo_sel
          /\ fluxo_sel' = f
    /\ UNCHANGED <<rate_input, moeda, meses_sel, parceiros_sel, produtos_sel>>
    /\ Main(faixa)

\* the slider, moved to a range within [0.0, max(1.0, vmax)]
SetFaixa ==
    /\ Rerun
    /\ ~IsNaN(VMax(df_val))
    /\ UNCHANGED <<rate_input, moeda, meses_sel, parceiros_sel, produtos_sel, fluxo_sel>>
    /\ \E lo \in {Num(0), Num(1)}, hi \in {Num(1), VMax(df_val)} :
          /\ FLe(lo, hi)
          /\ FLe(hi, SliderMax(VMax(df_val)))
          /\ [lo |-> lo, hi |-> hi] # faixa
          /\ Main([lo |-> lo, hi |-> hi])

\* The button "Resetar filtros" writes the defaults to the session state; the
\* multiselects created after it then return either that default or the
\* selection their widget still holds.
ResetFiltros ==
    /\ Rerun
    /\ meses_sel' \in {meses_sel, MesesOf(df_val)}
    /\ parceiros_sel' \in {parceiros_sel, {}}
    /\ produtos_sel' \in {produtos_sel, {}}
    /\ UNCHANGED <<rate_input, moeda, fluxo_sel>>
    /\ Main(faixa)

Next ==
    \/ SetMoeda
    \/ SetRate
    \/ SelectMeses
    \/ SelectParceiros
    \/ SelectProdutos
    \/ SelectFluxo
    \/ SetFaixa
    \/ ResetFiltros

Spec == Init /\ [][Next]_vars

(***************************************************************************)
(* The first run of main() on an upload that may have defects.             *)
(***************************************************************************)
\* the value of what a run has not computed
NotRun == "not_run"

\* a file was uploaded and main() has not run yet
InitLoad ==
    /\ upload \in Uploads
    /\ stage = "uploaded"
    /\ load = NotRun
    /\ df_norm = NotRun
    /\ lookups = NotRun
    /\ taxas_lidas = CsvNone
    /\ rate_input = RateDefaults(taxas_lidas)
    /\ moeda = "AOA"
    /\ meses_sel = {}
    /\ parceiros_sel = {}
    /\ produtos_sel = {}
    /\ fluxo_sel = Todos
    /\ faixa = FaixaDefault(NaN)
    /\ reruns = 0
    /\ rates = NotRun
    /\ df_val = NotRun
    /\ df_f = NotRun
    /\ aggs = NotRun
    /\ kpis = NotRun
    /\ insights = NotRun
    /\ pareto = NotRun

\* the first run of main(): st.stop() in carregar_dados ends it before any
\* later stage; else it goes on to the end
FirstRun ==
    /\ stage = "uploaded"
    /\ load' = CarregarDados(upload)
    /\ UNCHANGED <<upload, taxas_lidas, rate_input, moeda, parceiros_sel,
                   produtos_sel, fluxo_sel, reruns>>
    /\ IF load'.stopped
       THEN /\ stage' = "stopped"
            /\ UNCHANGED <<df_norm, lookups, meses_sel, faixa, outputs>>
       ELSE /\ stage' = "done"
            /\ df_norm' = NormalizarPaises(load'.df)
            /\ lookups' = PycountryCalls(load'.df)
            /\ rates' = ObterTaxas(taxas_lidas, rate_input)
            /\ df_val' = DfVal(df_norm', moeda, rates')
            /\ meses_sel' = MesesOf(df_val')
            /\ faixa' = FaixaDefault(VMax(df_val'))
            /\ df_f' = ApplyFilters(df_val', meses_sel', parceiros_sel,
                                    produtos_sel, fluxo_sel, faixa')
            /\ aggs' = PrecomputeAggs(df_f')
            /\ kpis' = GerarKpis(df_f', meses_sel')
            /\ insights' \in GerarInsights(df_f')
            /\ pareto' \in PlotParetoParceiros(aggs'.by_partner,
                                                FluxoRef(fluxo_sel))

SpecLoad == InitLoad /\ [][FirstRun]_vars

(***************************************************************************)
(* Sessions on datasets of several resolved partners, for the Pareto       *)
(* figure of the partner tab.                                              *)
(***************************************************************************)
ParetoPartners == {"China", "Canada", "RD Congo"}

ParetoRows ==
    [month : {1}, flow : Flows, partner_country : ParetoPartners,
     product_desc : Products, value_aoa : Values]

ParetoRowRank(r) ==
    (FlowRank(r.flow) * 16 + NameIndex(r.partner_country)) * 8 + r.value_aoa

ParetoDatasets ==
    UNION {{df \in [1..n -> ParetoRows] :
                \A i \in 1..(n - 1) :
                    ParetoRowRank(df[i]) <= ParetoRowRank(df[i + 1])}
           : n \in 0..MaxRows}

InitPareto == \E raw \in ParetoDatasets : Loaded(CsvOf(raw), CsvNone)

NextPareto ==
    \/ SelectFluxo
    \/ SelectParceiros

SpecPareto == InitPareto /\ [][NextPareto]_vars

(***************************************************************************)
(* Reference computations used to state the properties: sums taken row by  *)
(* row over the filtered records, independently of the grouped views.      *)
(***************************************************************************)
RECURSIVE RefSum(_, _)
RefSum(df, idx) ==
    IF idx = {} THEN Num(0)
    ELSE LET i == CHOOSE x \in idx : TRUE
         IN  FAdd(IF IsNaN(df[i].value) THEN Num(0) ELSE df[i].value,
                  RefSum(df, idx \ {i}))

RefFlowTotal(f) == RefSum(df_f, {i \in 1..Len(df_f) : df_f[i].flow = f})
RefMonthTotal(m) == RefSum(df_f, {i \in 1..Len(df_f) : df_f[i].month = m})
RefPartnersTotal(S) ==
    RefSum(df_f, {i \in 1..Len(df_f) : df_f[i].partner_country_clean \in S})
RefTotal == RefSum(df_f, 1..Len(df_f))

IsSentinelList(l) == Len(l) = 1 /\ l[1].kind = "sem_valores"

\* MeanRate of a rate table: the mean of its strictly positive entries, 0 if none
RefMeanRate(tbl) ==
    LET pos == {m \in DOMAIN tbl : tbl[m] > 0}
    IN  IF pos = {} THEN Num(0) ELSE Frac(SumRates(tbl, pos), Cardinality(pos))

\* month m has an explicit strictly positive rate, typed or from the CSV
ExplicitRate(m) ==
    \/ rate_input[m] > 0
    \/ m \in DOMAIN taxas_lidas /\ taxas_lidas[m] > 0

(***************************************************************************)
(* Properties.                                                             *)
(***************************************************************************)

\* C1: for every filtered record set, the by-(month, flow) view and the
\* by-(partner, flow) view have the same total value, and both equal
\* totalExport + totalImport of the KPIs. (Fails: by_partner groups on iso3
\* and so loses every record whose partner was not resolved.)
C1_ConservationAcrossViews ==
    /\ ViewTotal(aggs.monthly_flow) = ViewTotal(aggs.by_partner)
    /\ ViewTotal(aggs.by_partner) = FAdd(kpis.exp_total, kpis.imp_total)

\* C2: in USD mode the applied rate of every record is the table's entry for
\* its month when that entry exists and is > 0, and MeanRate otherwise; the
\* value is value_aoa / applied rate when the applied rate is > 0 and NaN
\* (not 0) otherwise.
C2_AppliedRateAndValue ==
    moeda = "USD" =>
        /\ rates.taxa_media = RefMeanRate(rates.taxas)
        /\ Len(df_val) = Len(df_norm)
        /\ \A i \in 1..Len(df_val) :
              LET tbl == rates.taxas
                  m == df_norm[i].month
                  applied == IF m \in DOMAIN tbl /\ tbl[m] > 0 THEN Num(tbl[m])
                             ELSE RefMeanRate(tbl)
              IN  /\ df_val[i].applied_rate = applied
                  /\ FGt(applied, Num(0)) =>
                        df_val[i].value
                            = Frac(df_norm[i].value_aoa * applied.d, applied.n)
                  /\ ~FGt(applied, Num(0)) => IsNaN(df_val[i].value)

\* the table {1: 0, 2: 500}: a month-1 record of 4 AOA is converted at 500
C2_Witness ==
    /\ moeda = "USD"
    /\ rates.taxas = CsvScenario
    /\ \E i \in 1..Len(df_val) :
          /\ df_val[i].month = 1
          /\ df_val[i].value_aoa = 4
          /\ df_val[i].applied_rate = Num(500)
          /\ df_val[i].value = Frac(1, 125)

\* C3: the flag "all months had explicit rates" is true exactly when every
\* month 1..12 has an explicit strictly positive rate; the caption's badge is
\* shown in USD mode exactly when it is false.
C3_CompletoFlag ==
    /\ rates.completo <=> (\A m \in AllMonths : ExplicitRate(m))
    /\ Badge(moeda, rates.completo)
          <=> (moeda = "USD" /\ \E m \in AllMonths : ~ExplicitRate(m))
    /\ rates.taxas = CsvScenario => ~rates.completo

C3_Witness ==
    /\ rates.completo
    /\ moeda = "USD"
    /\ df_val # << >>

\* C4: in AOA mode the value of every record is its value_aoa, whatever the
\* rate table holds.
C4_LocalCurrencyIdentity ==
    moeda = "AOA" =>
        /\ Len(df_val) = Len(df_norm)
        /\ \A i \in 1..Len(df_val) : df_val[i].value = Num(df_norm[i].value_aoa)

\* AOA mode, after a rate was typed, with a table that has an entry of 0
C4_Witness ==
    /\ moeda = "AOA"
    /\ reruns > 0
    /\ 1 \in DOMAIN rates.taxas /\ rates.taxas[1] = 0
    /\ 3 \in DOMAIN rates.taxas /\ rates.taxas[3] = 1
    /\ \E i \in 1..Len(df_val) : df_val[i].value = Num(4) /\ df_val[i].month = 1

C6_KpiTotals ==
    /\ kpis.exp_total = RefFlowTotal(Exportacoes)
    /\ kpis.imp_total = RefFlowTotal(Importacoes)
    /\ kpis.balanca = FSub(RefFlowTotal(Exportacoes), RefFlowTotal(Importacoes))
    /\ kpis.n_parceiros
          = Cardinality({df_f[i].partner_country_clean : i \in 1..Len(df_f)})

\* one export of 4 and one import of 1 with the same partner
C6_Witness ==
    /\ Len(df_f) = 2
    /\ kpis.exp_total = Num(4)
    /\ kpis.imp_total = Num(1)
    /\ kpis.balanca = Num(3)
    /\ kpis.cobertura = Num(4)
    /\ kpis.n_parceiros = 1

\* C7: the month-over-month change is (total of the reference month / total
\* of the month before - 1) * 100 when the reference month is > 1 and the
\* month before has a total > 0 in the filtered set, and NaN otherwise; the
\* reference month is the largest selected month.
C7_MonthOverMonth ==
    LET defined == /\ meses_sel # {}
                   /\ MaxOfSet(meses_sel) > 1
                   /\ FGt(RefMonthTotal(MaxOfSet(meses_sel) - 1), Num(0))
    IN  /\ meses_sel # {} => kpis.mes_ref = MaxOfSet(meses_sel)
        /\ defined =>
              LET cur == RefMonthTotal(MaxOfSet(meses_sel))
                  prev == RefMonthTotal(MaxOfSet(meses_sel) - 1)
              IN  /\ kpis.var_mm
                        = Frac((cur.n * prev.d - prev.n * cur.d) * 100,
                               cur.d * prev.n)
                  /\ VarText(kpis) = "pct"
        /\ ~defined => IsNaN(kpis.var_mm) /\ VarText(kpis) = "dash"

\* month 1 totals 1 and month 2 totals 4: a change of +300%
C7_Witness ==
    /\ meses_sel = {1, 2}
    /\ RefMonthTotal(1) = Num(1)
    /\ RefMonthTotal(2) = Num(4)
    /\ kpis.var_mm = Num(300)

\* C8: for an empty filtered set the five views are empty, the totals are 0,
\* coverage and month-over-month change are NaN and the insights are the
\* single sentinel.
C8_EmptyFilteredSet ==
    df_f = << >> =>
        /\ DOMAIN aggs.monthly_flow = {}
        /\ DOMAIN aggs.by_partner = {}
        /\ DOMAIN aggs.by_product = {}
        /\ DOMAIN aggs.by_region = {}
        /\ DOMAIN aggs.monthly_region = {}
        /\ kpis.exp_total = Num(0)
        /\ kpis.imp_total = Num(0)
        /\ IsNaN(kpis.cobertura)
        /\ IsNaN(kpis.var_mm)
        /\ insights = <<Sentinel>>

\* a loaded dataset with rows, all of them filtered out
C8_Witness ==
    /\ df_f = << >>
    /\ df_val # << >>
    /\ reruns > 0
    /\ insights = <<Sentinel>>

MinTopPartners ==
    LET names == {df_f[i].partner_country_clean : i \in 1..Len(df_f)}
        Reaches(k) ==
            \E S \in SUBSET names :
                /\ Cardinality(S) = k
                /\ FGe(FMul(RefPartnersTotal(S), Num(100)),
                       FMul(RefTotal, Num(ParetoPct)))
    IN  CHOOSE k \in 1..Cardinality(names) :
            Reaches(k) /\ \A j \in 1..(k - 1) : ~Reaches(j)

\* C10: whenever the total is positive, the concentration insight reports the
\* minimum number of top partners whose cumulative share reaches 80%.
\* (Fails: the code counts the partners whose cumulative share is <= 80%.)
C10_ConcentrationCount ==
    ~IsSentinelList(insights) =>
        \E i \in 1..Len(insights) :
            /\ insights[i].kind = "concentracao"
            /\ insights[i].n80 = MinTopPartners

\* the groups the Pareto figure is drawn from: the by-(partner, flow) view of
\* the flow of the partner tab, by partner name
RefParetoTotals == ParetoTotals(aggs.by_partner, FluxoRef(fluxo_sel))

\* C11: the Pareto figure is empty when the total value of the selected flow
\* is 0, also for a view that is not empty; otherwise it marks the first
\* position, in descending order of value, at which the cumulative share is
\* at least 80%. (Fails: only an empty view returns the empty figure, so a
\* view of zeros divides 0 by 0 and the annotation raises; and the mark is
\* the row closest to 80%, looked up by its index label.)
C11_ParetoMark ==
    LET total == ViewTotal(RefParetoTotals)
    IN  /\ total = Num(0) => pareto.status = "empty"
        /\ FGt(total, Num(0)) =>
              /\ pareto.status = "ok"
              /\ FGe(pareto.cum_pct[pareto.mark], Num(ParetoPct))
              /\ \A i \in 1..(pareto.mark - 1) :
                    FLt(pareto.cum_pct[i], Num(ParetoPct))

\* C12: for every partner view of positive total, the figure has one bar for
\* every partner of the view, and its cumulative share never decreases along
\* the bars, which are in descending order of value, and is 100% at the last.
C12_ParetoCumulative ==
    FGt(ViewTotal(RefParetoTotals), Num(0)) =>
        LET n == Len(pareto.partners)
        IN  /\ pareto.status = "ok"
            /\ {pareto.partners[i] : i \in 1..n} = DOMAIN RefParetoTotals
            /\ n = Cardinality(DOMAIN RefParetoTotals)
            /\ Len(pareto.cum_pct) = n
            /\ \A i \in 1..(n - 1) :
                  /\ FGe(RefParetoTotals[pareto.partners[i]],
                         RefParetoTotals[pareto.partners[i + 1]])
                  /\ FLe(pareto.cum_pct[i], pareto.cum_pct[i + 1])
            /\ pareto.cum_pct[n] = Num(100)

\* two partners with 4 and 1: the cumulative share is 80% and then 100%
C12_Witness ==
    /\ pareto.status = "ok"
    /\ Len(pareto.cum_pct) = 2
    /\ pareto.cum_pct[1] = Num(80)
    /\ pareto.cum_pct[2] = Num(100)

\* what the upload holds, read from its text
RefMissingColumns == ColunasEssenciais \ upload.columns
RefHasReportYear ==
    \E i \in 1..Len(upload.rows) : upload.rows[i].year = "2022"
RefHasOtherYear ==
    \E i \in 1..Len(upload.rows) : upload.rows[i].year = "2021"

\* no stage after carregar_dados has run
NothingRun ==
    /\ df_norm = NotRun
    /\ lookups = NotRun
    /\ rates = NotRun
    /\ df_val = NotRun
    /\ df_f = NotRun
    /\ aggs = NotRun
    /\ kpis = NotRun
    /\ insights = NotRun
    /\ pareto = NotRun

\* C13: the run is stopped with an error, with no records and no later stage
\* run, exactly when an essential column is missing or no row is of 2022;
\* the error for missing columns names every one of them; rows of other
\* years next to a row of 2022 do not stop the run and give a warning.
C13_FatalErrors ==
    stage # "uploaded" =>
        LET fatal == RefMissingColumns # {} \/ ~RefHasReportYear
        IN  /\ fatal <=> stage = "stopped"
            /\ fatal =>
                  /\ load.stopped
                  /\ load.df = << >>
                  /\ NothingRun
            /\ RefMissingColumns # {} =>
                  load.error = [kind |-> "faltam_colunas",
                                colunas |-> RefMissingColumns]
            /\ (RefMissingColumns = {} /\ ~RefHasReportYear) =>
                  load.error = [kind |-> "sem_2022", colunas |-> {}]
            /\ ~fatal =>
                  /\ stage = "done"
                  /\ load.error = NoError
                  /\ RefHasOtherYear => load.warning

\* an upload without the columns year and month
C13_Witness ==
    /\ stage = "stopped"
    /\ upload.rows # << >>
    /\ load.error.kind = "faltam_colunas"
    /\ load.error.colunas = {"year", "month"}

\* C14: every record carregar_dados returns is of the year 2022 and of a
\* month in 1..12, also when the upload has rows whose year or month is
\* missing or unparseable next to good rows. (Fails: a missing year compares
\* to <NA>, which (df["year"] != 2022).any() skips, so with no row of
\* another year the filter on the year is not applied and the row stays.)
C14_YearAndMonth ==
    stage = "done" =>
        \A i \in 1..Len(load.df) :
            /\ load.df[i].year = Int64(ReportYear)
            /\ load.df[i].month \in AllMonths

\* C15: value_aoa of every record carregar_dados returns is defined and not
\* negative: a negative value of the upload becomes 0 and so does a missing
\* or unparseable one. (Fails: only fillna(0.0) is applied, a negative value
\* passes unchanged and reaches the conversion.)
C15_ValueNotNegative ==
    stage = "done" =>
        /\ \A i \in 1..Len(load.df) : load.df[i].value_aoa >= 0
        /\ \A i \in 1..Len(df_val) : df_val[i].value_aoa >= 0

\* the sum of value over the records of the filtered set with the partner
\* name p and the flow f, and with the product q and the flow f
RefPartnerFlowTotal(p, f) ==
    RefSum(df_f, {i \in 1..Len(df_f) :
                    df_f[i].partner_country_clean = p /\ df_f[i].flow = f})
RefProductFlowTotal(q, f) ==
    RefSum(df_f, {i \in 1..Len(df_f) :
                    df_f[i].product_desc = q /\ df_f[i].flow = f})

\* C16: a record whose partner was not resolved (iso3 is None) is counted in
\* the by-(partner, flow) view under its name and in the by-(product, flow)
\* view: the groups of its name and flow sum to the values of all records of
\* that name and flow. (Fails: by_partner groups on iso3 too, and groupby
\* drops the rows whose key is null.)
C16_UnresolvedCounted ==
    \A i \in 1..Len(df_f) :
        df_f[i].iso3 = NoIso =>
            LET p == df_f[i].partner_country_clean
                q == df_f[i].product_desc
                f == df_f[i].flow
                groups == {k \in DOMAIN aggs.by_partner : k[1] = p /\ k[3] = f}
            IN  /\ groups # {}
                /\ SumView(aggs.by_partner, groups) = RefPartnerFlowTotal(p, f)
                /\ <<q, f>> \in DOMAIN aggs.by_product
                /\ aggs.by_product[<<q, f>>] = RefProductFlowTotal(q, f)

\* C17: the sets SADC, UE27 and ASIA do not overlap: the country code of no
\* record is in more than one of them. (Fails: "CYP" is in UE27 and in
\* ASIA.)
C17_BlocsDisjoint ==
    stage = "done" =>
        \A i \in 1..Len(df_norm) :
            LET x == df_norm[i].iso3
            IN  /\ ~(x \in SADC /\ x \in UE27)
                /\ ~(x \in SADC /\ x \in ASIA)
                /\ ~(x \in UE27 /\ x \in ASIA)

\* the partner name of a cell of the upload, trimmed, "" for a missing cell
RefTrimmed(text) == IF text = BlankChina THEN "China" ELSE text

\* C18: partner_country_clean of every record is the trimmed partner name of
\* a row of the upload, which is the empty string for a missing name, and
\* partnerCount counts the trimmed names. (Fails: the name is never
\* stripped, and astype(str) in carregar_dados turns a missing name into the
\* string "nan" before fillna("") can apply.)
C18_CleanNameTrimmed ==
    stage = "done" =>
        LET trimmed == {RefTrimmed(upload.rows[j].partner_country) :
                            j \in 1..Len(upload.rows)}
        IN  /\ \A i \in 1..Len(df_norm) :
                  df_norm[i].partner_country_clean \in trimmed
            /\ kpis.n_parceiros
                  = Cardinality({RefTrimmed(df_f[i].partner_country_clean) :
                                    i \in 1..Len(df_f)})

\* C19: in USD mode a record whose converted value is NaN, and which passes
\* the month, partner, product and flow filters, keeps its NaN and is in the
\* filtered set; its partner counts in n_parceiros. (Fails: the value-range
\* filter compares NaN with the ends of the range, which is false, and
\* drops the record.)
C19_UndefinedValueKept ==
    moeda = "USD" =>
        \A i \in 1..Len(df_val) :
            (/\ IsNaN(df_val[i].value)
             /\ df_val[i].month \in meses_sel
             /\ (parceiros_sel # {} =>
                    df_val[i].partner_country_clean \in parceiros_sel)
             /\ (produtos_sel # {} => df_val[i].product_desc \in produtos_sel)
             /\ (fluxo_sel \in Flows => df_val[i].flow = fluxo_sel))
            => /\ \E j \in 1..Len(df_f) : df_f[j] = df_val[i]
               /\ kpis.n_parceiros >= 1

\* C20: a name whose key (trimmed, lowercased, without diacritics) is in the
\* exception table gets the code of the table and is not handed to
\* pycountry; any other name gets what pycountry finds, and None when it
\* finds nothing; the run goes on in every case.
C20_ExceptionTableFirst ==
    stage = "done" =>
        /\ Len(df_norm) = Len(load.df)
        /\ \A i \in 1..Len(df_norm) :
              LET raw == load.df[i].partner_country
                  iso3 == df_norm[i].iso3
              IN  /\ raw \in {"China", BlankChina} => iso3 = "CHN"
                  /\ raw = "RD Congo" => iso3 = "COD"
                  /\ raw = Mocambique => iso3 = "MOZ"
                  /\ raw = "Canada" => iso3 = "CAN"
                  /\ raw = "Cyprus" => iso3 = "CYP"
                  /\ raw \in {"Outros", NanText} => iso3 = NoIso
        /\ \A k \in 1..Len(lookups) :
              lookups[k] \notin {"China", BlankChina, "RD Congo", Mocambique,
                                 "Mocambique"}
        /\ \A i \in 1..Len(load.df) :
              load.df[i].partner_country
                    \in {"Canada", "Cyprus", "Outros", NanText} =>
                  \E k \in 1..Len(lookups) : lookups[k] = load.df[i].partner_country

\* "RD Congo" resolved by the table with no lookup, next to a name that no
\* step resolves
C20_Witness ==
    /\ stage = "done"
    /\ Len(df_norm) = 2
    /\ df_norm[1].partner_country_clean = "RD Congo"
    /\ df_norm[1].iso3 = "COD"
    /\ df_norm[2].partner_country_clean = "Outros"
    /\ df_norm[2].iso3 = NoIso
    /\ lookups = <<"Outros">>

\* the region of the country codes the partner names of the model resolve
\* to: SADC before UE before Asia, "Outros" for any other code and for None
RefRegion(x) ==
    CASE x \in {"COD", "MOZ"} -> "SADC"
      [] x = "CYP" -> "UE"
      [] x = "CHN" -> "Asia"
      [] OTHER -> "Outros"

RefRegionFlowTotal(g, f) ==
    RefSum(df_f, {i \in 1..Len(df_f) :
                    RefRegion(df_f[i].iso3) = g /\ df_f[i].flow = f})
RefMonthRegionTotal(m, g) ==
    RefSum(df_f, {i \in 1..Len(df_f) :
                    df_f[i].month = m /\ RefRegion(df_f[i].iso3) = g})

\* C21: the region of a record is SADC if its code is in SADC, else UE if it
\* is in UE27, else Asia if it is in ASIA, else Outros, which is also the
\* region of a record with no code; a code in two sets gets the earlier
\* label; by_region and monthly_region group every record of the filtered
\* set, those with no code included, under this label.
C21_RegionPriority ==
    stage = "done" =>
        /\ DOMAIN aggs.by_region
              = {<<RefRegion(df_f[i].iso3), df_f[i].flow>> : i \in 1..Len(df_f)}
        /\ \A k \in DOMAIN aggs.by_region :
              aggs.by_region[k] = RefRegionFlowTotal(k[1], k[2])
        /\ DOMAIN aggs.monthly_region
              = {<<df_f[i].month, RefRegion(df_f[i].iso3)>> : i \in 1..Len(df_f)}
        /\ \A k \in DOMAIN aggs.monthly_region :
              aggs.monthly_region[k] = RefMonthRegionTotal(k[1], k[2])

\* a record of Cyprus, whose code is in UE27 and in ASIA, next to a record
\* with no code
C21_Witness ==
    /\ stage = "done"
    /\ Len(df_f) = 2
    /\ df_f[1].iso3 = "CYP"
    /\ df_f[2].iso3 = NoIso
    /\ aggs.by_region = (<<"UE", Exportacoes>> :> Num(4))
                            @@ (<<"Outros", Exportacoes>> :> Num(4))
    /\ aggs.monthly_region = (<<1, "UE">> :> Num(4)) @@ (<<1, "Outros">> :> Num(4))

\* the place of a statement in the order of gerar_insights
RefStatementRank(kind) ==
    CASE kind = "parceiro" -> 1
      [] kind = "produto" -> 2
      [] kind = "meses" -> 3
      [] kind \in {"superavitaria", "deficitaria"} -> 4
      [] kind = "concentracao" -> 5
      [] OTHER -> 0

\* the first month of 1..12 with the largest and with the smallest total of
\* the filtered set, over both flows, a month with no record counting as 0
RefBestMonth ==
    MinOfSet({m \in AllMonths :
                \A k \in AllMonths : FGe(RefMonthTotal(m), RefMonthTotal(k))})
RefWorstMonth ==
    MinOfSet({m \in AllMonths :
                \A k \in AllMonths : FLe(RefMonthTotal(m), RefMonthTotal(k))})

\* C22: when gerar_insights does not return the sentinel, its statements
\* are in the order leading partner, leading product, months, balance,
\* concentration, each at most once and a missing one leaving the order of
\* the others; the balance statement is there exactly once and says surplus
\* exactly when exports - imports >= 0; the months statement names the
\* first month of largest and of smallest total over the months 1..12 of
\* both flows, a month with no record counting as 0.
C22_InsightOrder ==
    ~IsSentinelList(insights) =>
        LET n == Len(insights)
            rank == [i \in 1..n |-> RefStatementRank(insights[i].kind)]
            bal == FSub(RefFlowTotal(Exportacoes), RefFlowTotal(Importacoes))
        IN  /\ \A i \in 1..n : rank[i] # 0
            /\ \A i \in 1..(n - 1) : rank[i] < rank[i + 1]
            /\ insights[1].kind = "parceiro"
            /\ \A p \in {df_f[i].partner_country_clean : i \in 1..Len(df_f)} :
                  FGe(RefPartnersTotal({insights[1].nome}), RefPartnersTotal({p}))
            /\ insights[2].kind = "produto"
            /\ Cardinality({i \in 1..n : rank[i] = 4}) = 1
            /\ \A i \in 1..n :
                  /\ insights[i].kind = "superavitaria" => FGe(bal, Num(0))
                  /\ insights[i].kind = "deficitaria" => FLt(bal, Num(0))
                  /\ insights[i].kind = "meses" =>
                        /\ insights[i].best_m = RefBestMonth
                        /\ insights[i].worst_m = RefWorstMonth
            /\ (\E i \in 1..n : insights[i].kind = "meses")
                  <=> FGt(RefMonthTotal(RefBestMonth), Num(0))

\* all five statements: the best month is 1, the worst is month 3, which has
\* no record, and one partner holds 80% of the total
C22_Witness ==
    /\ Len(insights) = 5
    /\ insights[1].kind = "parceiro"
    /\ insights[2].kind = "produto"
    /\ insights[3].kind = "meses"
    /\ insights[3].best_m = 1
    /\ insights[3].worst_m = 3
    /\ insights[4].kind = "superavitaria"
    /\ insights[5].kind = "concentracao"
    /\ insights[5].n80 = 1
    /\ MesesOf(df_f) = {1, 2}

====
